---- MODULE Spec2Model ----
(***************************************************************************)
(* db-testtools: per-test database isolation.                              *)
(*                                                                         *)
(* Six specifications share this module.                                   *)
(*   Spec    the DatabaseResource (fixtures.py) driven by a sequence of    *)
(*           tests, each inside a SessionFixture in future (v2) mode.      *)
(*   LegacySpec  the same run with SessionFixture(future=False) on the     *)
(*           savepoint-capable engine.                                     *)
(*   PgSpec  PostgresContainerFixture.setUp, connect and cleanUp, in both  *)
(*           copies the repository holds (engines/postgres.py and          *)
(*           fixtures.py).                                                 *)
(*   PgCleanUpSpec  PgSpec where cleanUp is eventually run.                *)
(*   HostSpec  the containers several fixtures launch on one host.         *)
(*   SqlSpec set_up_test_database over every init_sql up to a length.      *)
(***************************************************************************)
EXTENDS Integers, Sequences, FiniteSets, TLC

\* ------------------------------------------------------------------ bounds
\* Tests run against one DatabaseResource.
MaxTests == 3
\* make() calls on one DatabaseResource (testresources re-makes a resource
\* whose use count fell to zero and is wanted again).
MaxMakes == 2
\* Rows of test_model that exist at any one time.
MaxRows == 2

\* Engine fixture instances one run can create: one per make, one per rebuild.
MaxInst == MaxMakes + MaxTests

VARIABLES
    \* ---- the environment of one run
    engine_fixture_name,  \* DatabaseResource.engine_fixture_name
    sa_join,              \* how the installed SQLAlchemy joins a Session to a
                          \* Connection that is already inside a SAVEPOINT
    \* ---- DatabaseResource
    pc,                   \* position of the (single) test-runner thread
    db,                   \* self.db: the engine fixture instance, 0 = unset
    fx,                   \* every engine fixture instance ever constructed
    nFx,                  \* number of engine fixture instances constructed
    session_id,           \* self._session_id, 0 = unset
    session_id_iterator,  \* self._session_id_iterator: the value next() yields
    Session,              \* self.Session: the scoped_session registry
    \* ---- SessionFixture of the running test
    sf,
    \* ---- history (observers, never read by the program)
    issued,               \* values next_session_id has returned, in order
    testIds,              \* session_id() in effect at each SessionFixture.setUp
    testRegistries,       \* the scoped_session registry in use at each
                          \* SessionFixture.setUp
    nTests,
    nMakes,
    hist,                 \* what the running test has done so far
    prev,                 \* what the previous test did
    \* ---- PostgresContainerFixture.setUp
    pg,
    \* ---- the process the run is in
    proc                  \* os.environ, the module global models_loaded,
                          \* and the exception that reached the test runner

vars == <<engine_fixture_name, sa_join, pc, db, fx, nFx, session_id,
          session_id_iterator, Session, sf, issued, testIds, testRegistries,
          nTests, nMakes, hist, prev, pg, proc>>

resourceVars == <<engine_fixture_name, sa_join, pc, db, fx, nFx, session_id,
                  session_id_iterator, Session, sf, issued, testIds,
                  testRegistries, nTests, nMakes, hist, prev, proc>>

\* ------------------------------------------------------- engine fixtures
EngineFixtureNames == {"SqliteMemoryFixture", "PostgresContainerFixture"}

\* The two ways SQLAlchemy joins a Session to a Connection already inside a
\* SAVEPOINT: 1.4 (future=True) adopts the connection's innermost savepoint,
\* 2.0 (conservative_savepoint) nests a savepoint of the session's own.
JoinModes == {"adopt", "own"}

\* Mutants of has_savepoint: a driver that answers the wrong way.
has_savepoint_always(name) == TRUE

has_savepoint_never(name) == FALSE

\* EngineFixture.has_savepoint of the two drivers.
has_savepoint(name) == name = "PostgresContainerFixture"

NoFixture ==
    [state |-> "none", name |-> "none", tables |-> FALSE, rows |-> 0,
     creates |-> 0, drops |-> 0, tornBy |-> "none"]

\* pick_engine_fixture + db.setUp(): a fresh instance with an empty database.
EngineFixtureSetUp(name) ==
    [state |-> "live", name |-> name, tables |-> FALSE, rows |-> 0,
     creates |-> 0, drops |-> 0, tornBy |-> "none"]

\* metadata.create_all(bind=engine)
create_tables(f) == [f EXCEPT !.tables = TRUE, !.creates = @ + 1]

\* metadata.drop_all(bind=engine): the tables go, and their rows with them.
drop_tables(f) == [f EXCEPT !.tables = FALSE, !.rows = 0, !.drops = @ + 1]

\* db.cleanUp(): the fixture's cleanups run (sqlite: the connection that
\* holds the in-memory database is closed; postgres: the container is
\* killed), so the instance's database is gone.  `by` records which caller
\* discarded the instance.
cleanUp(f, by) ==
    [f EXCEPT !.state = "torn", !.tornBy = by, !.tables = FALSE, !.rows = 0]

\* ------------------------------------------- transactions on a connection
\* sf.stack is the stack of transactions open on the fixture's connection:
\* level 1 is the connection's root transaction, every further level a
\* SAVEPOINT.  A transaction handle (sf.txn, sf.savepoint, the session's
\* sf.trans) is the level it opened, or 0 once that level has ended
\* (handle.is_active is false).
\* A legacy session (future=False) is bound to the engine and works on a
\* connection of its own: sf.session_stack is the stack of transactions open
\* on that connection, sf.transaction the depth of the session's chain of
\* SessionTransaction objects (0 none, 1 the root, 2 a nested one).
NoSessionFixture ==
    [connection |-> "none", engine |-> 0, stack |-> <<>>, txn |-> 0,
     savepoint |-> 0, session |-> "none", trans |-> 0,
     should_commit |-> FALSE, out |-> 0, registered |-> FALSE,
     close_error |-> "none", transaction |-> 0, session_stack |-> <<>>]

Level(owner) == [owner |-> owner, rows |-> 0]

RECURSIVE SumRows(_, _)
\* Rows written in levels k..top of a stack.
SumRows(stack, k) ==
    IF k > Len(stack) THEN 0 ELSE stack[k].rows + SumRows(stack, k + 1)

RECURSIVE Zeroed(_)
\* A stack whose levels hold no work any more.
Zeroed(stack) ==
    IF stack = <<>> THEN <<>>
    ELSE <<[Head(stack) EXCEPT !.rows = 0]>> \o Zeroed(Tail(stack))

\* A handle after the stack was cut to n levels.
Alive(h, n) == IF h <= n THEN h ELSE 0

\* The stack cut to its first n levels, the handles above n ended.
CutTo(s, stack, n) ==
    [s EXCEPT !.stack = stack, !.txn = Alive(s.txn, n),
              !.savepoint = Alive(s.savepoint, n), !.trans = Alive(s.trans, n)]

\* Transaction.rollback() of the handle at level k: ROLLBACK (k = 1) or
\* ROLLBACK TO SAVEPOINT; the work of levels k..top is discarded.  On an
\* inactive handle (k = 0) it does nothing.
TxRollback(s, k) ==
    IF k = 0 THEN s ELSE CutTo(s, SubSeq(s.stack, 1, k - 1), k - 1)

\* Transaction.commit() of the handle at level k: COMMIT (k = 1) makes the
\* work of every level durable; RELEASE SAVEPOINT (k > 1) hands the work of
\* levels k..top to level k - 1.  `leak`: pysqlite never emitted BEGIN for
\* level 1, so the release of the outermost savepoint committed.
TxCommit(s, k, leak) ==
    IF k = 0 THEN s
    ELSE IF k = 1 THEN
        [CutTo(s, <<>>, 0) EXCEPT !.out = s.out + SumRows(s.stack, 1)]
    ELSE IF leak /\ k = 2 THEN
        [CutTo(s, Zeroed(SubSeq(s.stack, 1, k - 1)), k - 1)
            EXCEPT !.out = s.out + SumRows(s.stack, 1)]
    ELSE
        CutTo(s, Append(SubSeq(s.stack, 1, k - 2),
                        [s.stack[k - 1] EXCEPT
                            !.rows = @ + SumRows(s.stack, k)]), k - 1)

\* Connection.begin(): the root transaction.
ConnBegin(s, owner) == [s EXCEPT !.stack = <<Level(owner)>>]

\* Connection.begin_nested(): a SAVEPOINT, beginning the root transaction
\* first when the connection has none.
ConnBeginNested(s, owner) ==
    [s EXCEPT !.stack =
        IF Len(s.stack) = 0 THEN <<Level("autobegin"), Level(owner)>>
        ELSE Append(s.stack, Level(owner))]

\* An INSERT executed on the connection lands in the innermost level.
ConnInsert(s) == [s EXCEPT !.stack[Len(s.stack)].rows = @ + 1]

\* ------------------------------------------------------------ the Session
\* Mutant of Join: a session that takes the connection's root transaction
\* as its own and may commit it.
JoinRoot(s) ==
    IF s.trans # 0 \/ Len(s.stack) = 0 THEN s
    ELSE [s EXCEPT !.trans = 1, !.should_commit = TRUE]

\* Session._connection_for_bind on the session's first use of its bind, the
\* fixture's connection: the session takes part in the transaction the
\* connection is in.
\*   inside a SAVEPOINT: "adopt" takes the connection's innermost savepoint
\*     as the session's own transaction, "own" opens one more savepoint;
\*   inside the root transaction only: the session uses the root transaction
\*     and will not commit it;
\*   in no transaction: the session begins the root transaction.
Join(s) ==
    IF s.trans # 0 THEN s
    ELSE IF Len(s.stack) >= 2 THEN
        IF sa_join = "adopt"
        THEN [s EXCEPT !.trans = Len(s.stack), !.should_commit = TRUE]
        ELSE [ConnBeginNested(s, "session") EXCEPT
                !.trans = Len(s.stack) + 1, !.should_commit = TRUE]
    ELSE IF Len(s.stack) = 1 THEN
        [s EXCEPT !.trans = 1, !.should_commit = FALSE]
    ELSE
        [ConnBegin(s, "session") EXCEPT !.trans = 1, !.should_commit = TRUE]

\* The session's transaction is over: the session holds none until its next use.
EndTrans(s) == [s EXCEPT !.trans = 0, !.should_commit = FALSE]

\* SessionFixture.start_savepoint
start_savepoint(s) ==
    [ConnBeginNested(s, "savepoint") EXCEPT
        !.savepoint = IF Len(s.stack) = 0 THEN 2 ELSE Len(s.stack) + 1]

\* Mutant of restart_savepoint: a listener that never reopens the savepoint.
restart_savepoint_never(s) == s

\* Mutant of restart_savepoint: a listener that opens a savepoint at every
\* transaction end.
restart_savepoint_always(s) == start_savepoint(s)

\* The after_transaction_end listener of set_up_savepoint, future mode.
restart_savepoint(s) ==
    IF s.savepoint = 0 THEN start_savepoint(s) ELSE s

\* session.add(obj) + flush: one INSERT through the session.
SessionInsert(s) == ConnInsert(Join(s))

\* session.scalar(...): a SELECT through the session.
SessionQuery(s) == Join(s)

\* session.commit(): the session's transaction is committed when the session
\* may commit it, then after_transaction_end fires.
SessionCommit(s, leak) ==
    restart_savepoint(EndTrans(
        IF s.trans # 0 /\ s.should_commit
        THEN TxCommit(s, s.trans, leak) ELSE s))

\* Mutant of SessionRollback: the rollback ends the transaction and no
\* after_transaction_end listener runs.
SessionRollbackNoEvent(s) ==
    IF s.trans = 0 THEN s ELSE EndTrans(TxRollback(s, s.trans))

\* session.rollback(): the session's transaction is rolled back, whoever
\* began it, then after_transaction_end fires; nothing when the session
\* holds no transaction.
SessionRollback(s) ==
    IF s.trans = 0 THEN s
    ELSE restart_savepoint(EndTrans(TxRollback(s, s.trans)))

\* session.close(): a transaction the session holds is closed (rolled back
\* when the session may commit it) and after_transaction_end fires.
SessionClose(s) ==
    [(IF s.trans = 0 THEN s
      ELSE restart_savepoint(EndTrans(
              IF s.should_commit THEN TxRollback(s, s.trans) ELSE s)))
     EXCEPT !.session = "closed"]

\* connection.close(): whatever is still open on it is rolled back.
ConnClose(s) ==
    [TxRollback(s, IF Len(s.stack) = 0 THEN 0 ELSE 1) EXCEPT
        !.connection = "closed"]

\* What a SELECT count(*) through the fixture's connection sees.
TableCount == fx[sf.engine].rows + SumRows(sf.stack, 1)

\* ------------------------------------------------------ DatabaseResource
\* itertools.count(1)
IteratorStart == 1

NoHist ==
    [fresh |-> TRUE, pend |-> 0, commits |-> FALSE, rollbacks |-> FALSE,
     committed |-> FALSE, insAfterCommit |-> FALSE]

\* What is remembered of the previous test.
Summary(h) == [committed |-> h.committed, rollbacks |-> h.rollbacks]

\* No PostgresContainerFixture.setUp is followed in Spec.
PgIdle == [pc |-> "none"]

\* A DatabaseResource as __init__ leaves it, before make.
ResourceNew ==
    /\ pc = "idle"
    /\ db = 0
    /\ fx = [i \in 1..MaxInst |-> NoFixture]
    /\ nFx = 0
    /\ session_id = 0
    /\ session_id_iterator = 0
    /\ Session = [id |-> 0, bind |-> "none"]
    /\ sf = NoSessionFixture
    /\ issued = <<>>
    /\ testIds = <<>>
    /\ testRegistries = <<>>
    /\ nTests = 0
    /\ nMakes = 0
    /\ hist = NoHist
    /\ prev = Summary(NoHist)

\* Values of engine_fixture_name and of TEST_ENGINE_FIXTURE: the two
\* drivers, a name the fixtures module does not define, and the name of an
\* attribute of the module that is no engine fixture.
DriverNames == EngineFixtureNames \cup {"NoSuchFixture", "DatabaseResource"}

\* The attributes of the fixtures module among DriverNames.
ModuleAttributes == EngineFixtureNames \cup {"DatabaseResource"}

\* A process: TEST_ENGINE_FIXTURE in os.environ ("unset" when absent), the
\* module global models_loaded, the number of times the models module was
\* imported, whether create_tables ever ran with the models not imported,
\* and the exception that reached the test runner, with the call it left.
ProcNew(env_name, loaded) ==
    [TEST_ENGINE_FIXTURE |-> env_name, models_loaded |-> loaded,
     imports |-> IF loaded THEN 1 ELSE 0, created_unloaded |-> FALSE,
     raised |-> "none", raised_by |-> "none"]

Raise(p, error, by) == [p EXCEPT !.raised = error, !.raised_by = by]

\* The run starts in a process where another DatabaseResource may have
\* loaded the models already.
ResourceInit ==
    /\ engine_fixture_name \in DriverNames
    /\ sa_join \in JoinModes
    /\ ResourceNew
    /\ \E env_name \in DriverNames \cup {"unset"}, loaded \in BOOLEAN :
        proc = ProcNew(env_name, loaded)

Init == ResourceInit /\ pg = PgIdle

\* pick_engine_fixture, the name looked up: TEST_ENGINE_FIXTURE when it is
\* set (and it is stored in self.engine_fixture_name), else
\* self.engine_fixture_name.
EnvName ==
    IF proc.TEST_ENGINE_FIXTURE # "unset"
    THEN proc.TEST_ENGINE_FIXTURE ELSE engine_fixture_name

\* Mutant of pick_engine_fixture: a lookup that never raises.
pick_engine_fixture_default(name) == "none"

\* pick_engine_fixture, getattr(module, name)(**kwargs): what it raises,
\* "none" when it returns an engine fixture.
pick_engine_fixture(name) ==
    CASE name \in EngineFixtureNames -> "none"
      [] name \in ModuleAttributes -> "TypeError"
      [] OTHER -> "AttributeError"

\* Mutant of load_models: the models module is imported on every call.
load_models_every_time(p) ==
    [p EXCEPT !.models_loaded = TRUE, !.imports = @ + 1]

\* DatabaseResource.load_models
load_models(p) ==
    IF p.models_loaded = FALSE
    THEN [p EXCEPT !.models_loaded = TRUE, !.imports = @ + 1]
    ELSE p

\* DatabaseResource.initialize_engine: a new engine fixture is picked and set
\* up, the session-id counter restarts, a new scoped_session registry is
\* built, the schema is created.
\* When pick_engine_fixture raises, initialize_engine ends there.
initialize_engine ==
    /\ engine_fixture_name' = EnvName
    /\ IF pick_engine_fixture(EnvName) # "none"
       THEN /\ proc' = Raise(proc, pick_engine_fixture(EnvName),
                             "initialize_engine")
            /\ UNCHANGED <<db, fx, nFx, session_id, session_id_iterator,
                           Session>>
       ELSE /\ nFx' = nFx + 1
            /\ db' = nFx + 1
            /\ session_id_iterator' = IteratorStart + 1
            /\ session_id' = IteratorStart
            /\ Session' = [id |-> Session.id + 1, bind |-> "none"]
            /\ LET loaded == load_models(proc) IN
               /\ proc' = [loaded EXCEPT !.created_unloaded =
                                            @ \/ ~loaded.models_loaded]
               /\ fx' = [fx EXCEPT ![nFx + 1] =
                    create_tables(EngineFixtureSetUp(EnvName))]

\* DatabaseResource.make, called by testresources when the resource is
\* wanted and not made.
make ==
    /\ pc = "idle"
    /\ nMakes < MaxMakes
    /\ initialize_engine
    /\ nMakes' = nMakes + 1
    /\ pc' = IF pick_engine_fixture(EnvName) # "none" THEN "idle" ELSE "ready"
    /\ UNCHANGED <<sa_join, sf, issued, testIds, testRegistries, nTests, hist, prev, pg>>

\* Mutant of clean_drop_tables: clean goes on to the teardown without
\* dropping the schema.
clean_without_drop_tables ==
    /\ pc = "ready"
    /\ pc' = "clean_cleanUp"
    /\ UNCHANGED <<engine_fixture_name, sa_join, db, fx, nFx, session_id,
                   session_id_iterator, Session, sf, issued, testIds, testRegistries, nTests,
                   nMakes, hist, prev, pg, proc>>

\* Mutant of clean_drop_tables: the schema is dropped through the engine of
\* the first fixture the resource made.
clean_drop_tables_first_engine ==
    /\ pc = "ready"
    /\ fx' = [fx EXCEPT ![1] = drop_tables(@)]
    /\ pc' = "clean_cleanUp"
    /\ UNCHANGED <<engine_fixture_name, sa_join, db, nFx, session_id,
                   session_id_iterator, Session, sf, issued, testIds, testRegistries, nTests,
                   nMakes, hist, prev, pg, proc>>

\* DatabaseResource.clean, first statement: self.drop_tables(self.engine)
clean_drop_tables ==
    /\ pc = "ready"
    /\ fx' = [fx EXCEPT ![db] = drop_tables(@)]
    /\ pc' = "clean_cleanUp"
    /\ UNCHANGED <<engine_fixture_name, sa_join, db, nFx, session_id,
                   session_id_iterator, Session, sf, issued, testIds, testRegistries, nTests,
                   nMakes, hist, prev, pg, proc>>

\* DatabaseResource.clean, second statement: self.db.cleanUp()
clean_cleanUp ==
    /\ pc = "clean_cleanUp"
    /\ fx' = [fx EXCEPT ![db] = cleanUp(@, "clean")]
    /\ pc' = "idle"
    /\ UNCHANGED <<engine_fixture_name, sa_join, db, nFx, session_id,
                   session_id_iterator, Session, sf, issued, testIds, testRegistries, nTests,
                   nMakes, hist, prev, pg, proc>>

\* DatabaseResource.next_session_id
next_session_id ==
    /\ session_id' = session_id_iterator
    /\ session_id_iterator' = session_id_iterator + 1
    /\ issued' = Append(issued, session_id_iterator)

\* DatabaseResource.rollback_transaction, has_savepoint branch: txn.rollback()
rollback_transaction_rollback ==
    /\ pc = "rollback_transaction"
    /\ has_savepoint(fx[db].name)
    /\ sf' = TxRollback(sf, sf.txn)
    /\ pc' = "connection_close"
    /\ UNCHANGED <<engine_fixture_name, sa_join, db, fx, nFx, session_id,
                   session_id_iterator, Session, issued, testIds, testRegistries, nTests,
                   nMakes, hist, prev, pg, proc>>

\* Mutant of rollback_transaction_cleanUp: the rebuild does not tear the
\* old fixture down.
rebuild_without_cleanUp ==
    /\ pc = "rollback_transaction"
    /\ ~has_savepoint(fx[db].name)
    /\ pc' = "rebuild_initialize_engine"
    /\ UNCHANGED <<engine_fixture_name, sa_join, db, fx, nFx, session_id,
                   session_id_iterator, Session, sf, issued, testIds, testRegistries, nTests,
                   nMakes, hist, prev, pg, proc>>

\* DatabaseResource.rollback_transaction, rebuild branch, first half:
\* if self.db._cleanups: self.db.cleanUp()
rollback_transaction_cleanUp ==
    /\ pc = "rollback_transaction"
    /\ ~has_savepoint(fx[db].name)
    /\ fx' = [fx EXCEPT ![db] =
                IF @.state = "live" THEN cleanUp(@, "rebuild") ELSE @]
    /\ pc' = "rebuild_initialize_engine"
    /\ UNCHANGED <<engine_fixture_name, sa_join, db, nFx, session_id,
                   session_id_iterator, Session, sf, issued, testIds, testRegistries, nTests,
                   nMakes, hist, prev, pg, proc>>

\* Mutant of rollback_transaction_initialize_engine: the rebuild tears the
\* fixture down and does not initialize a new one.
rebuild_without_initialize_engine ==
    /\ pc = "rebuild_initialize_engine"
    /\ pc' = "connection_close"
    /\ UNCHANGED <<engine_fixture_name, sa_join, db, fx, nFx, session_id,
                   session_id_iterator, Session, sf, issued, testIds, testRegistries, nTests,
                   nMakes, hist, prev, pg, proc>>

\* DatabaseResource.rollback_transaction, rebuild branch, second half:
\* self.initialize_engine()
rollback_transaction_initialize_engine ==
    /\ pc = "rebuild_initialize_engine"
    /\ initialize_engine
    /\ pc' = IF pick_engine_fixture(EnvName) # "none"
             THEN "aborted" ELSE "connection_close"
    /\ UNCHANGED <<sa_join, sf, issued, testIds, testRegistries, nTests, nMakes, hist, prev,
                   pg>>

\* --------------------------------------------------------- SessionFixture
\* SessionFixture.setUp (future mode): connect, begin the outer transaction,
\* bind the session factory to the connection, open the session, open the
\* savepoint and attach the restart listener, register clean_session.
\* The statements of setUp before addCleanup, in order.
SetUpSteps ==
    <<"connect", "begin", "configure_session", "Session", "set_up_savepoint">>

\* The fixture after the first n statements of SetUpSteps.
SetUpThrough(n) ==
    LET connected == [NoSessionFixture EXCEPT !.connection = "open",
                                              !.engine = db]
        begun == [ConnBegin(connected, "txn") EXCEPT !.txn = 1]
        opened == [begun EXCEPT !.session = "open"]
    IN  CASE n = 0 -> NoSessionFixture
          [] n = 1 -> connected
          [] n \in {2, 3} -> begun
          [] n = 4 -> opened
          [] OTHER -> start_savepoint(opened)

\* self.addCleanup(self.clean_session)
addCleanup(s) == [s EXCEPT !.registered = TRUE]

\* SessionFixture.setUp when statement n + 1 of SetUpSteps raises: the
\* first n statements have run, addCleanup is not reached, the exception
\* leaves setUp and reaches the test runner.  With no cleanup registered
\* nothing of the fixture runs afterwards; the run is not followed further.
SessionFixture_setUp_raises ==
    /\ pc = "ready"
    /\ nTests < MaxTests
    /\ \E n \in 0..(Len(SetUpSteps) - 1) :
        /\ sf' = SetUpThrough(n)
        /\ Session' = IF n >= 3 THEN [Session EXCEPT !.bind = "connection"]
                      ELSE Session
        /\ proc' = Raise(proc, "OperationalError", SetUpSteps[n + 1])
    /\ pc' = "aborted"
    /\ UNCHANGED <<engine_fixture_name, sa_join, db, fx, nFx, session_id,
                   session_id_iterator, issued, testIds, testRegistries, nTests, nMakes,
                   hist, prev, pg>>

SessionFixture_setUp ==
    /\ pc = "ready"
    /\ nTests < MaxTests
    /\ sf' = addCleanup(SetUpThrough(Len(SetUpSteps)))
    /\ Session' = [Session EXCEPT !.bind = "connection"]
    /\ testIds' = Append(testIds, session_id)
    /\ testRegistries' = Append(testRegistries, Session.id)
    /\ nTests' = nTests + 1
    /\ prev' = Summary(hist)
    /\ hist' = NoHist
    /\ pc' = "test"
    /\ UNCHANGED <<engine_fixture_name, sa_join, db, fx, nFx, session_id,
                   session_id_iterator, issued, nMakes, pg, proc>>

\* Whether a RELEASE of the outermost savepoint may commit: pysqlite only.
LeakChoices ==
    IF fx[sf.engine].name = "SqliteMemoryFixture" THEN BOOLEAN ELSE {FALSE}

\* Code under test: session.add(TestModel(...)) and flush.
test_insert ==
    /\ pc = "test"
    /\ TableCount < MaxRows
    /\ sf' = SessionInsert(sf)
    /\ hist' = [hist EXCEPT !.fresh = FALSE, !.pend = @ + 1,
                            !.insAfterCommit = @ \/ hist.commits]
    /\ UNCHANGED <<engine_fixture_name, sa_join, pc, db, fx, nFx, session_id,
                   session_id_iterator, Session, issued, testIds, testRegistries, nTests,
                   nMakes, prev, pg, proc>>

\* Code under test: session.scalar(func.count(TestModel.id)).
test_query ==
    /\ pc = "test"
    /\ sf' = SessionQuery(sf)
    /\ UNCHANGED <<engine_fixture_name, sa_join, pc, db, fx, nFx, session_id,
                   session_id_iterator, Session, issued, testIds, testRegistries, nTests,
                   nMakes, hist, prev, pg, proc>>

\* Code under test: session.commit().
test_commit ==
    /\ pc = "test"
    /\ \E leak \in LeakChoices :
        LET r == SessionCommit(sf, leak) IN
        /\ sf' = [r EXCEPT !.out = 0]
        /\ fx' = [fx EXCEPT ![sf.engine].rows = @ + r.out]
    /\ hist' = [hist EXCEPT !.fresh = FALSE, !.pend = 0, !.commits = TRUE,
                            !.committed = @ \/ hist.pend > 0]
    /\ UNCHANGED <<engine_fixture_name, sa_join, pc, db, nFx, session_id,
                   session_id_iterator, Session, issued, testIds, testRegistries, nTests,
                   nMakes, prev, pg, proc>>

\* Code under test: session.rollback().
test_rollback ==
    /\ pc = "test"
    /\ sf' = SessionRollback(sf)
    /\ hist' = [hist EXCEPT !.fresh = FALSE, !.pend = 0, !.rollbacks = TRUE]
    /\ UNCHANGED <<engine_fixture_name, sa_join, pc, db, fx, nFx, session_id,
                   session_id_iterator, Session, issued, testIds, testRegistries, nTests,
                   nMakes, prev, pg, proc>>

\* SessionFixture.clean_session, first statement: self.session.close().
\* It runs as the fixture's cleanup once the test is over.
\* What session.close() can do: return, or, when the session holds a
\* transaction it has to end on the connection, raise what the database
\* raised.
CloseOutcomes(s) ==
    IF s.trans = 0 THEN {"closed"}
    ELSE {"closed", "OperationalError", "InterfaceError"}

\* Mutant of Swallowed: clean_session without the try/except.
SwallowedNever(error) == FALSE

\* except sa.exc.OperationalError: pass
Swallowed(error) == error = "OperationalError"

\* When close() raises, the transaction the session held is left as it was.
\* An exception that is not swallowed leaves clean_session and reaches the
\* test runner; the run is not followed further.
clean_session_close ==
    /\ pc = "test"
    /\ \E outcome \in CloseOutcomes(sf) :
        IF outcome = "closed"
        THEN /\ sf' = SessionClose(sf)
             /\ pc' = "rollback_transaction"
             /\ UNCHANGED proc
        ELSE /\ sf' = [sf EXCEPT !.session = "closed",
                                 !.close_error = outcome]
             /\ IF Swallowed(outcome)
                THEN pc' = "rollback_transaction" /\ UNCHANGED proc
                ELSE /\ pc' = "aborted"
                     /\ proc' = Raise(proc, outcome, "clean_session")
    /\ UNCHANGED <<engine_fixture_name, sa_join, db, fx, nFx, session_id,
                   session_id_iterator, Session, issued, testIds, testRegistries, nTests,
                   nMakes, hist, prev, pg>>

\* SessionFixture.clean_session, third statement: self.connection.close()
clean_session_connection_close ==
    /\ pc = "connection_close"
    /\ sf' = ConnClose(sf)
    /\ pc' = "next_session_id"
    /\ UNCHANGED <<engine_fixture_name, sa_join, db, fx, nFx, session_id,
                   session_id_iterator, Session, issued, testIds, testRegistries, nTests,
                   nMakes, hist, prev, pg, proc>>

\* Mutant of clean_session_next_session_id: clean_session ends without the
\* id bump.
clean_session_without_next_session_id ==
    /\ pc = "next_session_id"
    /\ pc' = "ready"
    /\ UNCHANGED <<engine_fixture_name, sa_join, db, fx, nFx, session_id,
                   session_id_iterator, Session, sf, issued, testIds,
                   testRegistries, nTests, nMakes, hist, prev, pg, proc>>

\* SessionFixture.clean_session, last statement:
\* self.database.next_session_id()
clean_session_next_session_id ==
    /\ pc = "next_session_id"
    /\ next_session_id
    /\ pc' = "ready"
    /\ UNCHANGED <<engine_fixture_name, sa_join, db, fx, nFx, Session, sf,
                   testIds, testRegistries, nTests, nMakes, hist, prev, pg, proc>>

Next ==
    \/ make
    \/ clean_drop_tables
    \/ clean_cleanUp
    \/ SessionFixture_setUp
    \/ SessionFixture_setUp_raises
    \/ test_insert
    \/ test_query
    \/ test_commit
    \/ test_rollback
    \/ clean_session_close
    \/ rollback_transaction_rollback
    \/ rollback_transaction_cleanUp
    \/ rollback_transaction_initialize_engine
    \/ clean_session_connection_close
    \/ clean_session_next_session_id

Spec == Init /\ [][Next]_vars

\* ------------------------------------------ SessionFixture, legacy mode
\* SessionFixture(future=False): configure_session binds the session factory
\* to the engine, set_up_savepoint calls session.begin_nested() and the
\* listener takes its legacy branch.  A Session accepts future=False in
\* SQLAlchemy 1.4 only; the engine is savepoint-capable.

\* Session._autobegin: a session that holds no transaction begins its root
\* SessionTransaction.
LegacyAutobegin(s) ==
    IF s.transaction = 0 THEN [s EXCEPT !.transaction = 1] ELSE s

\* session.begin_nested(): a nested SessionTransaction under the current one.
\* Its SAVEPOINT is emitted when the session next uses its connection.
session_begin_nested(s) == [LegacyAutobegin(s) EXCEPT !.transaction = 2]

\* The after_transaction_end listener of set_up_savepoint, legacy branch, for
\* the end of the SessionTransaction at depth k:
\*   elif transaction.nested and not transaction._parent.nested:
\*       session.expire_all(); session.begin_nested()
legacy_restart_savepoint(s, k) ==
    IF k = 2 THEN session_begin_nested(s) ELSE s

\* SessionTransaction._connection_for_bind with bind = the engine: the root
\* checks a connection out of the pool and begins on it, a nested
\* transaction adds a SAVEPOINT.
LegacyConnection(s) ==
    LET b == LegacyAutobegin(s)
        root == IF Len(b.session_stack) = 0 THEN <<Level("session")>>
                ELSE b.session_stack
    IN  [b EXCEPT !.session_stack =
            IF b.transaction = 2 /\ Len(root) = 1
            THEN Append(root, Level("nested")) ELSE root]

\* session.add(obj) + flush in legacy mode.
LegacyInsert(s) ==
    LET c == LegacyConnection(s)
    IN  [c EXCEPT !.session_stack[Len(c.session_stack)].rows = @ + 1]

\* session.scalar(...) in legacy mode.
LegacyQuery(s) == LegacyConnection(s)

\* session.commit() in legacy mode, self._transaction.commit(_to_root=False):
\* only the current SessionTransaction is committed.  A nested one releases
\* its SAVEPOINT into the root; the root sends COMMIT and gives its
\* connection back.  Then after_transaction_end fires.
LegacyCommit(s) ==
    LET b == LegacyAutobegin(s) IN
    IF b.transaction = 2 THEN
        legacy_restart_savepoint(
            [b EXCEPT !.transaction = 1,
                      !.session_stack =
                          IF Len(@) = 2
                          THEN <<[@[1] EXCEPT !.rows = @ + b.session_stack[2].rows]>>
                          ELSE @], 2)
    ELSE
        legacy_restart_savepoint(
            [b EXCEPT !.transaction = 0, !.session_stack = <<>>,
                      !.out = @ + SumRows(b.session_stack, 1)], 1)

\* session.rollback() in legacy mode, self._transaction.rollback(
\* _to_root=False): nothing without a transaction; a nested one rolls back
\* to its SAVEPOINT, the root sends ROLLBACK.  Then after_transaction_end
\* fires.
LegacyRollback(s) ==
    IF s.transaction = 0 THEN s
    ELSE IF s.transaction = 2 THEN
        legacy_restart_savepoint(
            [s EXCEPT !.transaction = 1,
                      !.session_stack = SubSeq(@, 1, IF Len(@) = 0 THEN 0 ELSE 1)],
            2)
    ELSE
        legacy_restart_savepoint(
            [s EXCEPT !.transaction = 0, !.session_stack = <<>>], 1)

\* session.close(), Session._close_impl: every SessionTransaction of the
\* chain is closed, innermost first, and after_transaction_end fires for
\* each.  The nested transaction the listener begins while the chain is
\* being closed is dropped with the root: closing the root sets
\* session._transaction to None, rolls the connection back and returns it to
\* the pool.  The session can be used again and then begins a new root.
LegacyClose(s) ==
    LET inner == IF s.transaction = 2
                 THEN legacy_restart_savepoint(
                          [s EXCEPT !.transaction = 1], 2)
                 ELSE s
    IN  legacy_restart_savepoint(
            [inner EXCEPT !.transaction = 0, !.session_stack = <<>>], 1)

\* What a SELECT count(*) through the legacy session sees.
LegacyTableCount == fx[sf.engine].rows + SumRows(sf.session_stack, 1)

\* The statements of setUp before addCleanup in legacy mode.
LegacySetUpSteps ==
    <<"connect", "begin", "configure_session", "Session", "begin_nested">>

\* The fixture after the first n statements of LegacySetUpSteps.
LegacySetUpThrough(n) ==
    IF n < Len(LegacySetUpSteps) THEN SetUpThrough(n)
    ELSE session_begin_nested(SetUpThrough(n - 1))

\* SessionFixture.setUp in legacy mode when statement n + 1 raises.
SessionFixture_setUp_legacy_raises ==
    /\ pc = "ready"
    /\ nTests < MaxTests
    /\ \E n \in 0..(Len(LegacySetUpSteps) - 1) :
        /\ sf' = LegacySetUpThrough(n)
        /\ Session' = IF n >= 3 THEN [Session EXCEPT !.bind = "engine"]
                      ELSE Session
        /\ proc' = Raise(proc, "OperationalError", LegacySetUpSteps[n + 1])
    /\ pc' = "aborted"
    /\ UNCHANGED <<engine_fixture_name, sa_join, db, fx, nFx, session_id,
                   session_id_iterator, issued, testIds, testRegistries,
                   nTests, nMakes, hist, prev, pg>>

\* SessionFixture.setUp in legacy mode.
SessionFixture_setUp_legacy ==
    /\ pc = "ready"
    /\ nTests < MaxTests
    /\ sf' = addCleanup(LegacySetUpThrough(Len(LegacySetUpSteps)))
    /\ Session' = [Session EXCEPT !.bind = "engine"]
    /\ testIds' = Append(testIds, session_id)
    /\ testRegistries' = Append(testRegistries, Session.id)
    /\ nTests' = nTests + 1
    /\ prev' = Summary(hist)
    /\ hist' = NoHist
    /\ pc' = "test"
    /\ UNCHANGED <<engine_fixture_name, sa_join, db, fx, nFx, session_id,
                   session_id_iterator, issued, nMakes, pg, proc>>

\* Code under test, legacy session: session.add(TestModel(...)) and flush.
legacy_insert ==
    /\ pc = "test"
    /\ LegacyTableCount < MaxRows
    /\ sf' = LegacyInsert(sf)
    /\ hist' = [hist EXCEPT !.fresh = FALSE, !.pend = @ + 1,
                            !.insAfterCommit = @ \/ hist.commits]
    /\ UNCHANGED <<engine_fixture_name, sa_join, pc, db, fx, nFx, session_id,
                   session_id_iterator, Session, issued, testIds,
                   testRegistries, nTests, nMakes, prev, pg, proc>>

\* Code under test, legacy session: session.scalar(func.count(TestModel.id)).
legacy_query ==
    /\ pc = "test"
    /\ sf' = LegacyQuery(sf)
    /\ UNCHANGED <<engine_fixture_name, sa_join, pc, db, fx, nFx, session_id,
                   session_id_iterator, Session, issued, testIds,
                   testRegistries, nTests, nMakes, hist, prev, pg, proc>>

\* Code under test, legacy session: session.commit().
legacy_commit ==
    /\ pc = "test"
    /\ LET r == LegacyCommit(sf) IN
        /\ sf' = [r EXCEPT !.out = 0]
        /\ fx' = [fx EXCEPT ![sf.engine].rows = @ + r.out]
    /\ hist' = [hist EXCEPT !.fresh = FALSE, !.pend = 0, !.commits = TRUE,
                            !.committed = @ \/ hist.pend > 0]
    /\ UNCHANGED <<engine_fixture_name, sa_join, pc, db, nFx, session_id,
                   session_id_iterator, Session, issued, testIds,
                   testRegistries, nTests, nMakes, prev, pg, proc>>

\* Code under test, legacy session: session.rollback().
legacy_rollback ==
    /\ pc = "test"
    /\ sf' = LegacyRollback(sf)
    /\ hist' = [hist EXCEPT !.fresh = FALSE, !.pend = 0, !.rollbacks = TRUE]
    /\ UNCHANGED <<engine_fixture_name, sa_join, pc, db, fx, nFx, session_id,
                   session_id_iterator, Session, issued, testIds,
                   testRegistries, nTests, nMakes, prev, pg, proc>>

\* Code under test, legacy session: session.close(), as at the end of a
\* unit of work or of a `with session:` block.  The session stays usable.
legacy_close ==
    /\ pc = "test"
    /\ sf' = LegacyClose(sf)
    /\ hist' = [hist EXCEPT !.fresh = FALSE, !.pend = 0]
    /\ UNCHANGED <<engine_fixture_name, sa_join, pc, db, fx, nFx, session_id,
                   session_id_iterator, Session, issued, testIds,
                   testRegistries, nTests, nMakes, prev, pg, proc>>

\* What session.close() can do in clean_session in legacy mode: return, or,
\* when the session has a connection to roll back, raise what the database
\* raised.
LegacyCloseOutcomes(s) ==
    IF Len(s.session_stack) = 0 THEN {"closed"}
    ELSE {"closed", "OperationalError", "InterfaceError"}

\* SessionFixture.clean_session in legacy mode, first statement:
\* self.session.close().  The only statement close() sends is the ROLLBACK
\* of the session's root transaction; when it raises the connection is
\* lost and the database discards the transaction that was open on it.
legacy_clean_session_close ==
    /\ pc = "test"
    /\ \E outcome \in LegacyCloseOutcomes(sf) :
        IF outcome = "closed"
        THEN /\ sf' = [LegacyClose(sf) EXCEPT !.session = "closed"]
             /\ pc' = "rollback_transaction"
             /\ UNCHANGED proc
        ELSE /\ sf' = [sf EXCEPT !.session = "closed",
                                 !.close_error = outcome,
                                 !.transaction = 0, !.session_stack = <<>>]
             /\ IF Swallowed(outcome)
                THEN pc' = "rollback_transaction" /\ UNCHANGED proc
                ELSE /\ pc' = "aborted"
                     /\ proc' = Raise(proc, outcome, "clean_session")
    /\ UNCHANGED <<engine_fixture_name, sa_join, db, fx, nFx, session_id,
                   session_id_iterator, Session, issued, testIds,
                   testRegistries, nTests, nMakes, hist, prev, pg>>

\* A run in legacy mode: the resource is made on the savepoint-capable
\* engine under SQLAlchemy 1.4.
LegacyInit ==
    /\ engine_fixture_name = "PostgresContainerFixture"
    /\ sa_join = "adopt"
    /\ ResourceNew
    /\ \E env_name \in {"unset", "PostgresContainerFixture"},
          loaded \in BOOLEAN :
        proc = ProcNew(env_name, loaded)
    /\ pg = PgIdle

LegacyNext ==
    \/ make
    \/ clean_drop_tables
    \/ clean_cleanUp
    \/ SessionFixture_setUp_legacy
    \/ SessionFixture_setUp_legacy_raises
    \/ legacy_insert
    \/ legacy_query
    \/ legacy_commit
    \/ legacy_rollback
    \/ legacy_close
    \/ legacy_clean_session_close
    \/ rollback_transaction_rollback
    \/ clean_session_connection_close
    \/ clean_session_next_session_id

LegacySpec == LegacyInit /\ [][LegacyNext]_vars

\* ------------------------------------- PostgresContainerFixture.setUp
\* The repository holds the fixture twice: engines/postgres.py, and the
\* older copy in fixtures.py that DatabaseResource.pick_engine_fixture
\* resolves by name.
PgModules == {"engines/postgres.py", "fixtures.py"}

\* @retry(psycopg2.OperationalError, tries=60, delay=1), engines/postgres.py
TriesEngines == 60
\* @retry(psycopg2.OperationalError, tries=30, delay=1), fixtures.py
TriesFixtures == 30
\* delay=1 in both
Delay == 1

Tries(module) ==
    IF module = "engines/postgres.py" THEN TriesEngines ELSE TriesFixtures

\* ---- init_sql
\* The characters a script is made of here: two letters of statement text,
\* a white-space character, and the statement separator.
Alphabet == {"a", "b", " ", ";"}
Whitespace == {" "}

\* DEFAULT_INIT_SQL: statements that each begin on a new line and end with
\* ';', the last one followed by a newline (three in fixtures.py, five in
\* engines/postgres.py).
DefaultInitSql(module) ==
    LET three == <<" ", "a", ";", " ", "b", ";", " ", "a", ";", " ">> IN
    IF module = "engines/postgres.py"
    THEN <<" ", "a", ";", " ", "b", ";">> \o three
    ELSE three

\* str.split(';'): the pieces between the separators, empty ones included.
RECURSIVE SplitFrom(_, _, _)
SplitFrom(s, piece, pieces) ==
    IF s = <<>> THEN Append(pieces, piece)
    ELSE IF Head(s) = ";"
         THEN SplitFrom(Tail(s), <<>>, Append(pieces, piece))
         ELSE SplitFrom(Tail(s), Append(piece, Head(s)), pieces)

Split(s) == SplitFrom(s, <<>>, <<>>)

\* str.strip(): white space removed at both ends.
RECURSIVE LStrip(_)
LStrip(s) ==
    IF s # <<>> /\ Head(s) \in Whitespace THEN LStrip(Tail(s)) ELSE s

RECURSIVE RStrip(_)
RStrip(s) ==
    IF s # <<>> /\ s[Len(s)] \in Whitespace
    THEN RStrip(SubSeq(s, 1, Len(s) - 1)) ELSE s

Strip(s) == RStrip(LStrip(s))

\* Mutant of ShouldExecute: every piece is sent.
ShouldExecuteAlways(stmt) == TRUE

\* if stmt.strip():
ShouldExecute(stmt) == Strip(stmt) # <<>>

\* cur.execute(stmt) on the server: an empty query is refused.
ExecuteOutcome(stmt) ==
    IF \A i \in 1..Len(stmt) : stmt[i] \in Whitespace
    THEN "ProgrammingError" ELSE "none"

\* for stmt in self.init_sql.split(';'): if stmt.strip(): cur.execute(stmt)
\* The loop ends at the first statement that raises.
RECURSIVE ExecuteAll(_, _)
ExecuteAll(stmts, sent) ==
    IF stmts = <<>> THEN [sent |-> sent, error |-> "none"]
    ELSE IF ~ShouldExecute(Head(stmts)) THEN ExecuteAll(Tail(stmts), sent)
    ELSE IF ExecuteOutcome(Head(stmts)) # "none"
         THEN [sent |-> Append(sent, Head(stmts)),
               error |-> ExecuteOutcome(Head(stmts))]
         ELSE ExecuteAll(Tail(stmts), Append(sent, Head(stmts)))

\* random.randint(1, 1000) of fixtures.py, narrowed to 1..RandMax.
RandMax == 2

\* The process the fixture runs in, and the processes of one host.
Pid == 101
Pids == {Pid, Pid + 1}

\* The container name start_container builds, as the pieces the format
\* joins: "{}-{}.{}".format(self.name, os.getpid(), next(NEXT_ID)) in
\* engines/postgres.py, self.name + '-{}'.format(random.randint(1, 1000))
\* in fixtures.py.
ContainerName(module, name, pid, next_id, rand) ==
    IF module = "engines/postgres.py"
    THEN <<name, "-", pid, ".", next_id>>
    ELSE <<name, "-", rand>>

\* The values random.randint can return (one value where the module does
\* not call it).
RandChoices(module) ==
    IF module = "engines/postgres.py" THEN {0} ELSE 1..RandMax

\* The ports the kernel may hand to find_free_port.
Ports == {49152, 49153}

\* A fixture as __init__ leaves it, in an environment: whether
\* DBTESTTOOLS_USE_PODMAN is "1", whether the podman socket file exists,
\* whether the image is present locally.
PgNew(module, use_podman, socket_exists, image_local) ==
    [pc |-> "setUp", module |-> module, use_podman |-> use_podman,
     socket_exists |-> socket_exists, image_local |-> image_local,
     init_sql |-> DefaultInitSql(module), name |-> "testdb",
     pid |-> Pid, NEXT_ID |-> 1, container_name |-> <<>>,
     client |-> FALSE, pulled |-> FALSE, local_port |-> 0,
     container |-> "none", published |-> 0, server |-> "none",
     tries |-> Tries(module), attempts |-> 0, slept |-> 0, ready |-> FALSE,
     bootstrapped |-> FALSE, sent |-> <<>>,
     engine |-> FALSE, engine_port |-> 0, cleanups |-> 0,
     served |-> "none", done |-> <<>>, error |-> "none"]

PgInit ==
    /\ engine_fixture_name = "PostgresContainerFixture"
    /\ sa_join = "adopt"
    /\ ResourceNew
    /\ proc = ProcNew("unset", FALSE)
    /\ \E module \in PgModules, use_podman, socket_exists, image_local \in BOOLEAN :
        pg = PgNew(module, use_podman, socket_exists, image_local)

\* setUp raises: the exception leaves setUp, nothing further of it runs.
PgRaise(p, error) == [p EXCEPT !.pc = "failed", !.error = error]

\* A step of setUp has returned.
PgDone(p, step, next) == [p EXCEPT !.done = Append(@, step), !.pc = next]

\* Mutant of pg_from_env: no check of the podman socket.
pg_from_env_unchecked ==
    /\ pg.pc = "setUp"
    /\ pg' = PgDone([pg EXCEPT !.client = TRUE], "from_env", "pull_image")
    /\ UNCHANGED resourceVars

\* The head of setUp: with DBTESTTOOLS_USE_PODMAN=1 the podman socket must
\* exist (engines/postgres.py only; the copy in fixtures.py has no such
\* check), then docker.from_env().
pg_from_env ==
    /\ pg.pc = "setUp"
    /\ pg' =
        IF pg.module = "engines/postgres.py" /\ pg.use_podman
                /\ ~pg.socket_exists
        THEN PgRaise(pg, "FileNotFoundError")
        ELSE PgDone([pg EXCEPT !.client = TRUE], "from_env", "pull_image")
    /\ UNCHANGED resourceVars

\* pull_image: the image is pulled when it is not found locally.
pg_pull_image ==
    /\ pg.pc = "pull_image"
    /\ pg' = PgDone([pg EXCEPT !.pulled = ~pg.image_local],
                    "pull_image", "find_free_port")
    /\ UNCHANGED resourceVars

\* find_free_port: bind a socket to port 0, read the port, close the socket.
pg_find_free_port ==
    /\ pg.pc = "find_free_port"
    /\ \E port \in Ports :
        pg' = PgDone([pg EXCEPT !.local_port = port],
                     "find_free_port", "start_container")
    /\ UNCHANGED resourceVars

\* start_container: containers.run(..., ports={"5432": self.local_port}).
pg_start_container ==
    /\ pg.pc = "start_container"
    /\ \E rand \in RandChoices(pg.module) :
        pg' = PgDone([pg EXCEPT !.container = "running",
                                !.container_name =
                                    ContainerName(pg.module, pg.name, pg.pid,
                                                  pg.NEXT_ID, rand),
                                !.NEXT_ID =
                                    IF pg.module = "engines/postgres.py"
                                    THEN @ + 1 ELSE @,
                                !.published = pg.local_port,
                                !.server = "starting"],
                     "start_container", "wait_for_pg_start")
    /\ UNCHANGED resourceVars

\* The server in the container starts to accept connections.
server_accepts ==
    /\ pg.container = "running"
    /\ pg.server = "starting"
    /\ pg' = [pg EXCEPT !.server = "accepting"]
    /\ UNCHANGED resourceVars

\* What psycopg2.connect can do against the server.
ConnectOutcomes(server) ==
    IF server = "accepting" THEN {"connected"}
    ELSE {"OperationalError", "InterfaceError"}

\* Mutant of RetryAfterFailure: a retry loop that never counts down.
RetryForever(p) == [p EXCEPT !.slept = @ + Delay]

\* Mutant of RetryAfterFailure: a retry loop that falls out of the loop
\* (returns None) when the budget is spent.
RetryThenReturn(p) ==
    IF p.tries - 1 = 0
    THEN [p EXCEPT !.tries = 0, !.pc = "set_up_test_database"]
    ELSE [p EXCEPT !.tries = @ - 1, !.slept = @ + Delay]

\* The retry decorator after the wrapped call raised an exception of the
\* class it retries on: _tries -= 1; if not _tries: raise (the exception
\* just caught); else time.sleep(_delay) and call again.
RetryAfterFailure(p) ==
    IF p.tries - 1 = 0
    THEN [PgRaise(p, "OperationalError") EXCEPT !.tries = 0]
    ELSE [p EXCEPT !.tries = @ - 1, !.slept = @ + Delay]

\* One call of wait_for_pg_start by the retry decorator.
wait_for_pg_start ==
    /\ pg.pc = "wait_for_pg_start"
    /\ \E outcome \in ConnectOutcomes(pg.server) :
        LET p == [pg EXCEPT !.attempts = @ + 1] IN
        pg' = CASE outcome = "connected" ->
                    PgDone([p EXCEPT !.ready = TRUE],
                           "wait_for_pg_start", "set_up_test_database")
                [] outcome = "OperationalError" -> RetryAfterFailure(p)
                [] OTHER -> PgRaise(p, outcome)
    /\ UNCHANGED resourceVars

\* set_up_test_database: the bootstrap SQL on an administrative connection
\* in autocommit mode.
set_up_test_database ==
    /\ pg.pc = "set_up_test_database"
    /\ pg' =
        IF pg.server # "accepting" THEN PgRaise(pg, "OperationalError")
        ELSE LET run == ExecuteAll(Split(pg.init_sql), <<>>) IN
             IF run.error # "none"
             THEN PgRaise([pg EXCEPT !.sent = run.sent], run.error)
             ELSE PgDone([pg EXCEPT !.sent = run.sent, !.bootstrapped = TRUE],
                         "set_up_test_database", "create_engine")
    /\ UNCHANGED resourceVars

\* Mutant of pg_create_engine: the engine is built on the server's default
\* port.
pg_create_engine_default_port ==
    /\ pg.pc = "create_engine"
    /\ pg' = PgDone([pg EXCEPT !.engine = TRUE, !.engine_port = 5432,
                               !.cleanups = @ + 1],
                    "create_engine", "up")
    /\ UNCHANGED resourceVars

\* The end of setUp: sa.create_engine(...port=self.local_port...),
\* addCleanup(self.container.kill).
pg_create_engine ==
    /\ pg.pc = "create_engine"
    /\ pg' = PgDone([pg EXCEPT !.engine = TRUE,
                               !.engine_port = pg.local_port,
                               !.cleanups = @ + 1],
                    "create_engine", "up")
    /\ UNCHANGED resourceVars

\* connect() on the fixture that is up: the engine dials its port, and is
\* served by the container that publishes that port.
pg_connect ==
    /\ pg.pc = "up"
    /\ pg' = [pg EXCEPT !.served =
                IF pg.container = "running" /\ pg.published = pg.engine_port
                THEN "container" ELSE "refused"]
    /\ UNCHANGED resourceVars

\* What container.kill() can do: the container is killed, or the docker
\* client raises.
KillOutcomes == {"killed", "APIError"}

\* cleanUp() of the fixture that is up: the registered cleanup
\* self.container.kill runs; fixtures.Fixture.cleanUp raises what it raised.
pg_cleanUp ==
    /\ pg.pc = "up"
    /\ \E outcome \in KillOutcomes :
        pg' = IF outcome = "killed"
              THEN [pg EXCEPT !.container = "killed", !.server = "none",
                              !.cleanups = 0, !.pc = "cleaned"]
              ELSE [pg EXCEPT !.cleanups = 0, !.pc = "cleaned",
                              !.error = outcome]
    /\ UNCHANGED resourceVars

\* The steps of the thread that runs setUp.
PgThread ==
    \/ pg_from_env
    \/ pg_pull_image
    \/ pg_find_free_port
    \/ pg_start_container
    \/ wait_for_pg_start
    \/ set_up_test_database
    \/ pg_create_engine

\* The steps of the code that uses the fixture once it is up.
PgUse ==
    \/ pg_connect
    \/ pg_cleanUp

PgNext == PgThread \/ server_accepts \/ PgUse

\* setUp runs on: a thread inside setUp (sleeping in the retry loop
\* included) takes its next step.
PgSpec == PgInit /\ [][PgNext]_vars /\ WF_vars(PgThread)

\* setUp runs on, and the code that set the fixture up goes on to call
\* cleanUp (useFixture registers it; DatabaseResource.clean calls it).
PgCleanUpSpec ==
    PgInit /\ [][PgNext]_vars /\ WF_vars(PgThread) /\ WF_vars(pg_cleanUp)

\* ---- start_container on one host
\* Containers launched on one host.
MaxLaunches == 3

\* A host: the processes that run container fixtures on it, each with the
\* module global NEXT_ID of engines/postgres.py as import leaves it, and
\* the containers launched so far.
HostNew ==
    [pc |-> "host", NEXT_ID |-> [pid \in Pids |-> 1], launched |-> <<>>]

HostInit ==
    /\ engine_fixture_name = "PostgresContainerFixture"
    /\ sa_join = "adopt"
    /\ ResourceNew
    /\ proc = ProcNew("unset", FALSE)
    /\ pg = HostNew

\* start_container of a fixture of either module, constructed with the
\* default name, in one of the host's processes.
host_start_container ==
    /\ pg.pc = "host"
    /\ Len(pg.launched) < MaxLaunches
    /\ \E module \in PgModules, pid \in Pids :
        \E rand \in RandChoices(module) :
            pg' = [pg EXCEPT
                    !.launched = Append(@,
                        [module |-> module, pid |-> pid,
                         name |-> ContainerName(module, "testdb", pid,
                                                pg.NEXT_ID[pid], rand)]),
                    !.NEXT_ID[pid] = IF module = "engines/postgres.py"
                                     THEN @ + 1 ELSE @]
    /\ UNCHANGED resourceVars

HostNext == host_start_container

HostSpec == HostInit /\ [][HostNext]_vars

\* ---- set_up_test_database over scripts
MaxSqlLen == 4

\* The scripts of at most n characters.
RECURSIVE Scripts(_)
Scripts(n) ==
    IF n = 0 THEN {<<>>}
    ELSE LET shorter == Scripts(n - 1) IN
         shorter \cup {Append(s, c) : s \in shorter, c \in Alphabet}

\* A fixture constructed with init_sql, at the point of setUp where
\* wait_for_pg_start has returned.
PgReady(module, init_sql, port) ==
    [PgNew(module, FALSE, FALSE, TRUE) EXCEPT
        !.init_sql = init_sql, !.client = TRUE, !.local_port = port,
        !.container = "running", !.published = port,
        !.container_name = ContainerName(module, "testdb", Pid, 1, 1),
        !.NEXT_ID = IF module = "engines/postgres.py" THEN 2 ELSE 1,
        !.server = "accepting", !.attempts = 1, !.ready = TRUE,
        !.done = <<"from_env", "pull_image", "find_free_port",
                   "start_container", "wait_for_pg_start">>,
        !.pc = "set_up_test_database"]

SqlInit ==
    /\ engine_fixture_name = "PostgresContainerFixture"
    /\ sa_join = "adopt"
    /\ ResourceNew
    /\ proc = ProcNew("unset", FALSE)
    /\ \E module \in PgModules, init_sql \in Scripts(MaxSqlLen), port \in Ports :
        pg = PgReady(module, init_sql, port)

SqlNext == set_up_test_database \/ pg_create_engine

SqlSpec == SqlInit /\ [][SqlNext]_vars

\* ================================================================ claims
Instances == 1..MaxInst
Sqlite == engine_fixture_name = "SqliteMemoryFixture"
Postgres == engine_fixture_name = "PostgresContainerFixture"

\* C1: whatever rows the previous test inserted and committed, with any
\* commits and rollbacks, the table holds 0 rows when the next test begins
\* (its SessionFixture is set up and the test has done nothing yet), on
\* either engine driver.
C1_IsolationBetweenTests ==
    (pc = "test" /\ hist.fresh /\ nTests >= 2) => TableCount = 0

\* The second test of one make begins after a test that committed rows and
\* also rolled back.
C1_Witness ==
    /\ pc = "test" /\ hist.fresh /\ nTests >= 2 /\ nMakes = 1
    /\ prev.committed /\ prev.rollbacks

\* C2: a row inserted after the test committed the session is undone by
\* clean_session: once clean_session has finished, the database the resource
\* serves holds no row and nothing is left open on the fixture's connection.
C2_InsertAfterCommitUndone ==
    (pc = "ready" /\ hist.insAfterCommit) =>
        (fx[db].rows = 0 /\ Len(sf.stack) = 0 /\ sf.connection = "closed")

\* clean_session finished after a test that committed, inserted again,
\* rolled back and committed, on the engine that keeps its database.
C2_Witness ==
    /\ pc = "ready" /\ hist.insAfterCommit /\ hist.rollbacks /\ hist.committed
    /\ Postgres /\ sf.engine = db

\* C3 (as claimed): the values next_session_id returns over the lifetime of
\* one DatabaseResource are strictly increasing, none returned twice.
C3_SessionIdsStrictlyIncreasing ==
    \A i, j \in 1..Len(issued) : i < j => issued[i] < issued[j]

\* C4 (as claimed): any two tests run against one DatabaseResource were set
\* up under different session_id() values.
C4_DistinctSessionIdPerTest ==
    \A i, j \in 1..Len(testIds) : i < j => testIds[i] # testIds[j]

C6_RollbackLeavesResource ==
    [][(pc = "rollback_transaction"
            /\ fx[db].name = "PostgresContainerFixture") =>
        /\ db' = db /\ nFx' = nFx /\ fx' = fx
        /\ Session' = Session
        /\ session_id' = session_id
        /\ session_id_iterator' = session_id_iterator
        /\ (pc' # pc => sf'.txn = 0 /\ Len(sf'.stack) = 0)]_vars

\* rollback_transaction has returned on postgres after a test that
\* committed rows: the outer transaction is over.
C6_Witness ==
    /\ pc = "connection_close" /\ fx[db].name = "PostgresContainerFixture"
    /\ hist.committed /\ sf.txn = 0 /\ session_id > 1

\* C7: at most one engine fixture of the resource is live at any time.
C7_AtMostOneLiveFixture ==
    Cardinality({i \in Instances : fx[i].state = "live"}) <= 1

\* A rebuild is under way: the old fixture is torn down, the new one not yet
\* set up; and a rebuild is done: one torn, one live.
C7_Witness ==
    /\ pc = "connection_close"
    /\ \E i, j \in Instances :
        fx[i].state = "torn" /\ fx[i].tornBy = "rebuild" /\ fx[j].state = "live"

\* C8 (as claimed): every engine fixture instance has its schema created
\* exactly once, and dropped exactly once by the time it is torn down.
C8_CreatedOnceDroppedOnce ==
    \A i \in Instances :
        /\ fx[i].state # "none" => fx[i].creates = 1
        /\ fx[i].state = "torn" => fx[i].drops = 1

\* C8 (amended): the schema is created exactly once on every instance; an
\* instance discarded by clean is dropped exactly once, while still live; an
\* instance discarded by a rebuild is torn down without a drop.
C8_CreatedOnceDroppedOnlyByClean ==
    \A i \in Instances :
        /\ fx[i].state # "none" => fx[i].creates = 1
        /\ fx[i].state = "live" =>
            fx[i].drops = IF pc = "clean_cleanUp" /\ i = db THEN 1 ELSE 0
        /\ (fx[i].state = "torn" /\ fx[i].tornBy = "clean") => fx[i].drops = 1
        /\ (fx[i].state = "torn" /\ fx[i].tornBy = "rebuild") => fx[i].drops = 0

\* One instance was discarded by a rebuild and a later one by clean.
C8_Witness ==
    \E i, j \in Instances :
        /\ fx[i].state = "torn" /\ fx[i].tornBy = "rebuild"
        /\ fx[j].state = "torn" /\ fx[j].tornBy = "clean"

\* C9 (as claimed): once the retry budget of wait_for_pg_start is spent on
\* attempts that all failed with the operational failure class, setUp has
\* failed with StartupTimeoutError.
C9_FailsWithStartupTimeoutError ==
    pg.tries = 0 => (pg.pc = "failed" /\ pg.error = "StartupTimeoutError")

\* C9 (amended): once the retry budget is spent, setUp has failed with the
\* psycopg2.OperationalError of the last attempt, and no later step of
\* setUp has run.
C9_FailsWithOperationalError ==
    pg.tries = 0 =>
        /\ pg.pc = "failed" /\ pg.error = "OperationalError"
        /\ pg.attempts = Tries(pg.module)
        /\ ~pg.bootstrapped /\ ~pg.engine

\* The server never accepted a connection and the budget is spent.
C9_Witness ==
    /\ pg.tries = 0 /\ pg.server = "starting"
    /\ pg.attempts = Tries(pg.module) /\ pg.pc = "failed"

\* Connection attempts are bounded by the decorator's tries, with one fixed
\* delay after every failed attempt that is retried; the probe returns at
\* the first success and gives up at the last failure.
ProbeBounded ==
    /\ pg.attempts <= Tries(pg.module)
    /\ pg.attempts + pg.tries >= Tries(pg.module)
    /\ pg.pc = "wait_for_pg_start" =>
        (pg.slept = Delay * pg.attempts /\ pg.tries > 0)
    /\ pg.pc \in {"set_up_test_database", "create_engine", "up"} =>
        (pg.attempts >= 1 /\ pg.slept = Delay * (pg.attempts - 1))
    /\ (pg.pc = "failed" /\ pg.tries = 0) =>
        pg.slept = Delay * (Tries(pg.module) - 1)

\* C10: the readiness probe makes at most tries attempts (60 / 30) a fixed
\* delay apart, and always ends: wait_for_pg_start is left, by a return or
\* by an exception.
C10_ProbeTerminates ==
    /\ []ProbeBounded
    /\ (pg.pc = "wait_for_pg_start") ~> (pg.pc # "wait_for_pg_start")

\* The probe returned at its first success, after failures and delays.
C10_Witness ==
    /\ pg.pc = "set_up_test_database"
    /\ pg.attempts = 3 /\ pg.slept = 2 * Delay


\* ---- C11
Letter(c) == c \notin Whitespace \cup {";"}

\* The statement text of a script: its characters other than white space
\* and separators, in order.
Letters(s) == SelectSeq(s, Letter)

RECURSIVE Concat(_)
Concat(stmts) ==
    IF stmts = <<>> THEN <<>> ELSE Head(stmts) \o Concat(Tail(stmts))

\* The positions of a script where a statement's text begins: a letter with
\* no letter between it and the separator before it.
StatementStarts(s) ==
    {i \in 1..Len(s) :
        /\ Letter(s[i])
        /\ \A j \in 1..(i - 1) :
            Letter(s[j]) => \E k \in (j + 1)..(i - 1) : s[k] = ";"}

\* stmt is sent as it stands in the script, from separator to separator.
StandsIn(stmt, s) ==
    \E i \in 1..Len(s) :
        /\ i + Len(stmt) - 1 <= Len(s)
        /\ SubSeq(s, i, i + Len(stmt) - 1) = stmt
        /\ i = 1 \/ s[i - 1] = ";"
        /\ i + Len(stmt) - 1 = Len(s) \/ s[i + Len(stmt)] = ";"

\* C11: once set_up_test_database has run, the statements sent to the
\* server are exactly the non-blank statements of init_sql, each once and
\* in the script's order: none of them is blank or holds a separator, each
\* stands in the script, there is one per statement of the script, their
\* text is the script's text in order; and the call did not raise, whatever
\* blank statements (a trailing one included) the script holds.
C11_ExecutesNonBlankStatements ==
    pg.pc \in {"create_engine", "up", "failed"} =>
        /\ pg.error = "none"
        /\ pg.bootstrapped
        /\ \A n \in 1..Len(pg.sent) :
            /\ Letters(pg.sent[n]) # <<>>
            /\ \A i \in 1..Len(pg.sent[n]) : pg.sent[n][i] # ";"
            /\ StandsIn(pg.sent[n], pg.init_sql)
        /\ Len(pg.sent) = Cardinality(StatementStarts(pg.init_sql))
        /\ Letters(Concat(pg.sent)) = Letters(pg.init_sql)

\* A script of two statements with an empty one at the end has been run.
C11_Witness ==
    /\ pg.bootstrapped
    /\ pg.init_sql = <<"a", ";", "b", ";">>
    /\ pg.sent = <<<<"a">>, <<"b">>>>

\* ---- C12
\* The driver name in effect does not name an engine fixture.
Unresolved == EnvName \notin EngineFixtureNames

\* What the lookup of the name in effect raises: getattr raises
\* AttributeError for a name the module lacks; calling an attribute that is
\* no engine fixture with the fixture's keyword arguments raises TypeError.
LookupError ==
    IF EnvName \in ModuleAttributes THEN "TypeError" ELSE "AttributeError"

\* No engine fixture was set up and the resource holds none.
NothingSetUp ==
    /\ nFx = 0
    /\ db = 0
    /\ \A i \in Instances : fx[i].state = "none"
    /\ pc = "idle"

\* C12 as stated: with a driver name that does not resolve, make fails with
\* UnknownEngineDriver and no engine fixture is set up.
C12_FailsWithUnknownEngineDriver ==
    (Unresolved /\ nMakes > 0) =>
        /\ proc.raised = "UnknownEngineDriver"
        /\ NothingSetUp

\* C12, amended: the name in effect is TEST_ENGINE_FIXTURE when it is set,
\* else engine_fixture_name, and every fixture set up is of that name; when
\* it does not resolve, make fails in initialize_engine with AttributeError
\* (TypeError for a module attribute that is no engine fixture) and no
\* engine fixture is set up.
C12_FailsWithAttributeError ==
    /\ \A i \in Instances : fx[i].state # "none" => fx[i].name = EnvName
    /\ nMakes > 0 => engine_fixture_name = EnvName
    /\ Unresolved => NothingSetUp
    /\ (Unresolved /\ nMakes > 0) =>
        /\ proc.raised = LookupError
        /\ proc.raised_by = "initialize_engine"

\* make has failed on a name that TEST_ENGINE_FIXTURE put in place of a
\* driver's.
C12_Witness ==
    /\ nMakes > 0
    /\ proc.TEST_ENGINE_FIXTURE = "NoSuchFixture"
    /\ engine_fixture_name = "NoSuchFixture"
    /\ proc.raised = "AttributeError"
    /\ NothingSetUp

\* ---- C13
\* C13: from the end of SessionFixture.setUp until clean_session calls
\* rollback_transaction, the outer transaction opened in setUp is active on
\* the connection and is the connection's root transaction; the session
\* never holds it as its own, so the test's commits and rollbacks end
\* savepoints only, and on a driver with savepoints nothing the test
\* commits is durable.
C13_OuterTransactionStaysActive ==
    pc \in {"test", "rollback_transaction"} =>
        /\ sf.txn = 1
        /\ Len(sf.stack) >= 1
        /\ sf.stack[1].owner = "txn"
        /\ sf.trans # 1
        /\ has_savepoint(fx[sf.engine].name) => fx[sf.engine].rows = 0

\* The test has committed and rolled back, and is still running.
C13_Witness ==
    /\ pc = "test"
    /\ hist.commits
    /\ hist.rollbacks
    /\ hist.committed
    /\ sf.txn = 1

\* ---- C14
\* The teardown of clean_session is complete: the transaction is gone from
\* the connection, the connection is closed, a session id was issued for
\* every test run.
CleanSessionDone ==
    /\ sf.stack = <<>>
    /\ sf.txn = 0
    /\ sf.connection = "closed"
    /\ Len(issued) = nTests

\* C14: when session.close() raises OperationalError in clean_session the
\* error is swallowed: nothing reaches the test runner, clean_session goes
\* on and ends with the transaction rolled back (or the database rebuilt),
\* the connection closed and the session id bumped.  When it raises
\* anything else, that exception leaves clean_session and none of the
\* later statements runs.
C14_OperationalErrorSwallowed ==
    /\ sf.close_error = "OperationalError" =>
        /\ proc.raised = "none"
        /\ pc # "aborted"
        /\ pc \notin {"test", "rollback_transaction", "rebuild_initialize_engine",
                      "connection_close", "next_session_id"} => CleanSessionDone
    /\ sf.close_error \notin {"none", "OperationalError"} =>
        /\ pc = "aborted"
        /\ proc.raised = sf.close_error
        /\ proc.raised_by = "clean_session"
        /\ sf.connection = "open"
        /\ sf.txn = 1
        /\ Len(issued) = nTests - 1

\* clean_session has finished after close() raised OperationalError.
C14_Witness ==
    /\ sf.close_error = "OperationalError"
    /\ pc = "ready"
    /\ CleanSessionDone

\* ---- C15
\* C15 as stated: when a statement of SessionFixture.setUp after the
\* connection checkout has raised, clean_session is registered as a cleanup
\* (and so runs: the connection does not stay open).
C15_CleanSessionRegisteredOnFailure ==
    (proc.raised_by \in {"begin", "configure_session", "Session",
                         "set_up_savepoint"}) =>
        /\ sf.registered
        /\ sf.connection # "open"

C17_KillFailureNotRaised ==
    pg.pc = "cleaned" => pg.error = "none"

\* ---- C18
\* Nothing of setUp after the socket check has run.
NoLaterStep ==
    /\ ~pg.client
    /\ ~pg.pulled
    /\ pg.local_port = 0
    /\ pg.container = "none"
    /\ pg.server = "none"
    /\ pg.done = <<>>

\* C18 as stated: with the podman toggle set and the socket absent, setUp
\* fails with ConfigurationError before any later step.
C18_PodmanSocketAbsentConfigurationError ==
    (pg.use_podman /\ ~pg.socket_exists /\ pg.pc # "setUp") =>
        /\ pg.pc = "failed"
        /\ pg.error = "ConfigurationError"
        /\ NoLaterStep

\* C18, amended: in engines/postgres.py, with DBTESTTOOLS_USE_PODMAN=1 and
\* the socket absent, setUp fails with FileNotFoundError before any later
\* step: no docker client, no image pull, no port, no container.  The copy
\* of the fixture in fixtures.py does not read the toggle and goes on to
\* create the docker client.
C18_PodmanSocketAbsentFileNotFoundError ==
    (pg.use_podman /\ ~pg.socket_exists /\ pg.pc # "setUp") =>
        IF pg.module = "engines/postgres.py"
        THEN /\ pg.pc = "failed"
             /\ pg.error = "FileNotFoundError"
             /\ NoLaterStep
        ELSE /\ pg.client
             /\ pg.error # "FileNotFoundError"

\* setUp of engines/postgres.py has failed on the absent socket.
C18_Witness ==
    /\ pg.module = "engines/postgres.py"
    /\ pg.use_podman
    /\ ~pg.socket_exists
    /\ pg.pc = "failed"
    /\ pg.error = "FileNotFoundError"

\* ---- C19
\* C19: in one process the models module is imported at most once, whatever
\* makes and rebuilds run and whether or not another DatabaseResource has
\* loaded it before; the global flag is set exactly when it was imported;
\* create_tables never runs before the import, so once any fixture has had
\* its schema created the module was imported exactly once.
C19_ModelsImportedOnce ==
    /\ proc.imports <= 1
    /\ proc.models_loaded <=> proc.imports = 1
    /\ ~proc.created_unloaded
    /\ (\E i \in Instances : fx[i].creates > 0) => proc.imports = 1

\* The resource was made twice and has had three fixtures at least, the
\* schema created on each.
C19_Witness ==
    /\ nMakes >= 2
    /\ nFx >= 3
    /\ proc.imports = 1
    /\ \A i \in 1..3 : fx[i].creates = 1

\* ---- C20
StepOrder ==
    <<"from_env", "pull_image", "find_free_port", "start_container",
      "wait_for_pg_start", "set_up_test_database", "create_engine">>

\* C20: the steps of setUp that have returned are a prefix of: docker
\* client, image check/pull, free-port allocation, container launch,
\* readiness polling, bootstrap SQL, engine construction.  The container
\* publishes the port find_free_port returned; no bootstrap statement is
\* sent before a readiness attempt has succeeded; the engine is built on
\* the published port; and once setUp has returned every connect() is
\* served by the container this setUp launched.
C20_SetUpStepsInOrder ==
    /\ Len(pg.done) <= Len(StepOrder)
    /\ pg.done = SubSeq(StepOrder, 1, Len(pg.done))
    /\ pg.container # "none" =>
        /\ pg.local_port \in Ports
        /\ pg.published = pg.local_port
    /\ (pg.bootstrapped \/ pg.sent # <<>>) => pg.ready
    /\ pg.ready => pg.attempts >= 1
    /\ pg.engine =>
        /\ pg.bootstrapped
        /\ pg.engine_port = pg.published
    /\ pg.pc = "up" => pg.container = "running"
    /\ pg.served \in {"none", "container"}

\* setUp has returned after pulling the image and more than one readiness
\* attempt, and a connection was served.
C20_Witness ==
    /\ pg.pc = "up"
    /\ pg.pulled
    /\ pg.attempts > 1
    /\ pg.done = StepOrder
    /\ pg.served = "container"

\* ---- C21
\* C21 as stated: clean_session runs close, rollback_transaction, connection
\* close, next_session_id in that order and next_session_id once per test,
\* so that whenever no clean_session is under way one id was issued per
\* finished test, and on the savepoint-capable engine the k-th test of the
\* resource is set up under session id k.
C21_KthTestHasSessionIdK ==
    /\ pc \in {"ready", "idle", "clean_cleanUp"} => Len(issued) = nTests
    /\ pc = "test" => Len(issued) = nTests - 1
    /\ Postgres => \A k \in 1..Len(testIds) : testIds[k] = k

\* ---- C22
\* The levels of the fixture's connection that are savepoints the fixture
\* opened.
FixtureSavepoints(s) ==
    {i \in 1..Len(s.stack) : s.stack[i].owner = "savepoint"}

\* C22: while the test runs (setUp has returned, clean_session has not
\* begun), after every session operation with its transaction-end handling,
\* the fixture's savepoint handle is active, it is a savepoint the fixture
\* opened above the outer transaction, and a transaction the session holds
\* is that savepoint or lies above it.
C22_SavepointActiveDuringTest ==
    pc = "test" =>
        /\ sf.savepoint >= 2
        /\ sf.savepoint <= Len(sf.stack)
        /\ sf.savepoint \in FixtureSavepoints(sf)
        /\ sf.trans # 0 => sf.trans >= sf.savepoint

\* The test has committed rows and rolled back, each of which ended the
\* fixture's savepoint (the session had adopted it), and goes on.
C22_Witness ==
    /\ pc = "test"
    /\ sa_join = "adopt"
    /\ hist.committed
    /\ hist.rollbacks
    /\ sf.savepoint = 2
    /\ sf.trans = 0

C27_AtMostOneFixtureSavepoint ==
    /\ Cardinality(FixtureSavepoints(sf)) <= 1
    /\ \A i \in FixtureSavepoints(sf) : sf.savepoint = i

\* The session's nested transaction, opened above the fixture's savepoint,
\* has been committed with rows in it: the fixture's savepoint is still the
\* one opened in setUp and holds the rows.
C27_Witness ==
    /\ pc = "test"
    /\ sa_join = "own"
    /\ hist.committed
    /\ sf.trans = 0
    /\ Len(sf.stack) = 2
    /\ sf.savepoint = 2
    /\ sf.stack[2].rows > 0

\* ---- C23
\* Two container names are the same string.
SameName(a, b) == Len(a) = Len(b) /\ a = b

\* C23 as stated: any two containers launched by container fixtures on one
\* host, in one process or in two, have different names.
C23_ContainerNamesDistinct ==
    \A i, j \in 1..Len(pg.launched) :
        i < j => ~SameName(pg.launched[i].name, pg.launched[j].name)

\* ---- C26
\* C26 as stated: every container setUp has launched is eventually killed,
\* whether setUp succeeded or failed after the launch (a kill the docker
\* client refused aside).
C26_LaunchedContainerEventuallyKilled ==
    (pg.container = "running") ~>
        (pg.container = "killed" \/ pg.error = "APIError")

\* ---- C24
\* C24 as stated: in legacy mode on the savepoint-capable engine, once
\* clean_session has run nothing the test wrote through the session is left,
\* neither stored in the database nor pending on the session's connection.
C24_LegacySessionWorkRolledBack ==
    (pc = "ready" /\ sf.session = "closed") =>
        /\ fx[db].rows = 0
        /\ sf.session_stack = <<>>
====
